---- MODULE Spec2Model ----
(***************************************************************************)
(* A model of the verifiable-execution core of the zkVM:                   *)
(*   - PageTableInfo::new, the page-table geometry (binfmt/image.rs);      *)
(*   - MemoryImage: new, hash_pages, check, get_root (binfmt/image.rs);    *)
(*   - PolyExtStep / PolyExtStepDef, the constraint interpreter            *)
(*     (zkp/adapter.rs);                                                   *)
(*   - Program::load_elf, the executable loader (binfmt/elf.rs);           *)
(*   - SyncSlice, the shared buffer of the evaluations (zkp/adapter.rs).   *)
(* Each subsystem has its own specification over its own variables; the    *)
(* variables of the other subsystems stay at their initial value.          *)
(***************************************************************************)
EXTENDS Integers, Sequences, FiniteSets, TLC

VARIABLES
    \* PageTableInfo::new, one loop iteration at a time
    page_table_addr,   \* argument page_table_addr (= max_mem)
    page_size,         \* argument page_size
    remain,            \* local `remain`
    layers,            \* local `layers`
    page_table_size,   \* local `page_table_size` (before rounding)
    pti_pc,            \* position in PageTableInfo::new
    pti,               \* the PageTableInfo returned, or NoInfo
    \* MemoryImage
    table_start,       \* PAGE_TABLE.start() of the platform configuration
    img_page_size,     \* argument page_size of MemoryImage::new
    program,           \* argument program: program.image, address -> word
    buf,               \* MemoryImage.buf, one entry per 32-byte half-block
    info,              \* MemoryImage.info
    img_pc,            \* "start", "ready", or how MemoryImage::new failed
    dirty,             \* buf was written since hash_pages last ran
    last,              \* the last operation on the image
    chk,               \* the result of the last check / get_root call
    \* PolyExtStepDef::step
    block,             \* self.block, the ops stepped so far
    fp_vars,           \* the fp register file
    mix_vars,          \* the mix register file
    mix,               \* argument mix
    u,                 \* argument u (taps)
    args,              \* argument args (globals)
    pe_pc,             \* "run", "returned", or the panic that ended the call
    ret,               \* self.ret
    result,            \* the MixState returned
    \* Program::load_elf
    elf,               \* what minimal_parse returned for argument input
    max_mem,           \* argument max_mem
    overflow_checks,   \* the build panics on u32 overflow (else it wraps)
    elf_pc,            \* position in load_elf, or how it ended
    segment,           \* the PT_LOAD segment being loaded
    seg_i,             \* loop variable i
    loads,             \* PT_LOAD segments met so far
    image,             \* local image: address -> word
    elf_res,           \* what load_elf returned, or the panic
    \* SyncSlice
    sbuf,              \* the underlying buffer
    view,              \* the SyncSlice made by the last slice call
    sync_pc,           \* "run", or how a call ended the process
    sync_oc,           \* the build panics on usize overflow (else it wraps)
    own,               \* own[w]: the elements worker w may address
    wrote,             \* wrote[w][a]: the value worker w last set at element a
    sync_last          \* the last call, with its result

geomVars == <<page_table_addr, page_size, remain, layers, page_table_size, pti_pc, pti>>

imgVars == <<table_start, img_page_size, program, buf, info, img_pc, dirty, last, chk>>

polyVars == <<block, fp_vars, mix_vars, mix, u, args, pe_pc, ret, result>>

elfVars == <<elf, max_mem, overflow_checks, elf_pc, segment, seg_i, loads, image, elf_res>>

syncVars == <<sbuf, view, sync_pc, sync_oc, own, wrote, sync_last>>

vars == <<geomVars, imgVars, polyVars, elfVars, syncVars>>

(***************************************************************************)
(* Platform constants imported by image.rs.                                *)
(***************************************************************************)
DIGEST_BYTES == 32
BLOCK_BYTES == 64
WORD_SIZE == 4

(***************************************************************************)
(* Bounds of the model.                                                    *)
(***************************************************************************)
\* Arithmetic is u32 in the code; the model's word range is scaled to
\* 0..WordCap-1. A result outside the range aborts the call (overflow
\* checks), it is never silently produced.
WordCap == 524288
\* Layers recorded before the model stops following a loop that does not end.
MaxLayers == 24
\* Memory ceilings tried by the geometry specification: 0..MaxGeomMem, plus
\* the ceilings of the unit tests.
MaxGeomMem == 320
\* MEM_SIZE of the scaled platform configuration, in blocks of BLOCK_BYTES.
MemBlocks == 12
\* PAGE_TABLE.start() ranges over the block-aligned addresses up to
\* MaxTableBlocks blocks; page sizes over 1..MaxPageBlocks blocks.
MaxTableBlocks == 8
MaxPageBlocks == 2
\* Words of a program image.
MaxWords == 1
\* Ops in the block of one evaluation.
MaxOps == 5
\* Bits of the scaled u32 of load_elf, and PT_LOAD segments per container.
U32Bits == 6
MaxLoads == 1
\* Elements of the buffer behind a SyncSlice, and bits of the scaled usize.
SyncLen == 3
UsizeBits == 3

(***************************************************************************)
(* image.rs: helpers                                                       *)
(***************************************************************************)
div_ceil(a, b) == (a + b - 1) \div b

round_up_noround(a, b) == a

round_up(a, b) == div_ceil(a, b) * b

NoInfo == [status |-> "none"]

\* One iteration of the layer loop: the new value of `remain`.
LayerRemain_pagesize(rem, p) == (rem \div p) * p

LayerRemain(rem, p) == (rem \div p) * DIGEST_BYTES

\* Lines 71-93 of PageTableInfo::new, after the loop has ended with the
\* layers `ls` of sum `size`.
FinishInfo(m, p, ls, size) ==
    LET max_mem2 == m + size
        num_pages == max_mem2 \div p
        rounded == round_up(size, BLOCK_BYTES)
        root_addr == m + rounded
        root_idx == root_addr \div p
        root_page_addr == root_idx * p
        num_root_entries == (root_addr - root_page_addr) \div DIGEST_BYTES
    IN  IF max_mem2 >= WordCap \/ root_addr >= WordCap
        THEN [status |-> "overflow"]
        ELSE IF root_idx # num_pages
        THEN [status |-> "assert_root_idx"]
        ELSE [status |-> "ok",
              page_size |-> p,
              page_table_addr |-> m,
              page_table_size |-> rounded,
              root_addr |-> root_addr,
              root_idx |-> root_idx,
              root_page_addr |-> root_page_addr,
              num_pages |-> num_pages,
              num_root_entries |-> num_root_entries,
              layers |-> ls]

\* The layer loop run to its end: [status, layers, size].
RECURSIVE LayerLoop(_, _, _, _)
LayerLoop(rem, p, ls, size) ==
    IF rem < p THEN [status |-> "ok", layers |-> ls, size |-> size]
    ELSE IF p = 0 THEN [status |-> "div_by_zero"]
    ELSE IF LayerRemain(rem, p) >= WordCap \/ size + LayerRemain(rem, p) >= WordCap
    THEN [status |-> "overflow"]
    ELSE IF Len(ls) >= MaxLayers THEN [status |-> "cut"]
    ELSE LayerLoop(LayerRemain(rem, p), p, Append(ls, LayerRemain(rem, p)),
                   size + LayerRemain(rem, p))

\* PageTableInfo::new as one call.
PageTableInfoNew(m, p) ==
    IF m < p THEN [status |-> "assert_max_mem"]
    ELSE LET l == LayerLoop(m, p, <<>>, 0)
         IN  IF l.status # "ok" THEN [status |-> l.status]
             ELSE FinishInfo(m, p, l.layers, l.size)

get_page_addr(inf, page_idx) == page_idx * inf.page_size

get_page_index(inf, addr) == addr \div inf.page_size

get_page_entry_addr_nobase(inf, page_idx) == page_idx * DIGEST_BYTES

get_page_entry_addr(inf, page_idx) == inf.page_table_addr + page_idx * DIGEST_BYTES

(***************************************************************************)
(* The constraint interpreter (adapter.rs): PolyExtStep::step and          *)
(* PolyExtStepDef::step, generic over a field F. The model instantiates F  *)
(* with the prime field of three elements and its quadratic extension      *)
(* F[X]/(X^2 + 1); an extension element a + bX is the pair <<a, b>>.       *)
(***************************************************************************)
BaseElems == {0, 1, 2}

FieldP == Cardinality(BaseElems)

ExtElems == BaseElems \X BaseElems

ExtZERO == <<0, 0>>

ExtONE == <<1, 0>>

\* F::Elem::from_u64
from_u64(v) == v % FieldP

\* F::ExtElem::from_subfield
from_subfield(e) == <<e, 0>>

ExtAdd(a, b) == <<(a[1] + b[1]) % FieldP, (a[2] + b[2]) % FieldP>>

ExtSub(a, b) == <<(a[1] - b[1] + FieldP) % FieldP, (a[2] - b[2] + FieldP) % FieldP>>

\* (a1 + a2 X)(b1 + b2 X) with X^2 = -1
ExtMul(a, b) ==
    <<(a[1] * b[1] + (FieldP - 1) * a[2] * b[2]) % FieldP,
      (a[1] * b[2] + a[2] * b[1]) % FieldP>>

\* The MixState pushed by PolyExtStep::True
MixTrue == [tot |-> ExtZERO, mul |-> ExtONE]

AndEqz_nomix(x, val, mixv) ==
    [tot |-> ExtAdd(x.tot, ExtMul(x.mul, val)), mul |-> x.mul]

\* The MixState pushed by PolyExtStep::AndEqz(x, val)
AndEqz(x, val, mixv) ==
    [tot |-> ExtAdd(x.tot, ExtMul(x.mul, val)), mul |-> ExtMul(x.mul, mixv)]

AndCond_nomul(x, cond, inner) ==
    [tot |-> ExtAdd(x.tot, ExtMul(cond, inner.tot)), mul |-> ExtMul(x.mul, inner.mul)]

\* The MixState pushed by PolyExtStep::AndCond(x, cond, inner)
AndCond(x, cond, inner) ==
    [tot |-> ExtAdd(x.tot, ExtMul(ExtMul(cond, inner.tot), x.mul)),
     mul |-> ExtMul(x.mul, inner.mul)]

(***************************************************************************)
(* PageTableInfo::new as a process: entry, loop iterations, exit.          *)
(***************************************************************************)
\* Ceilings and page sizes of the unit tests of image.rs.
TestMems == {1024, 2048, 4096, 8192, 6656, 31744, 262144}

GeomMems == (0..MaxGeomMem) \cup TestMems

GeomPageSizes == {0, 16, 32, 48, 64, 128, 1024, 4096}

GeomIdle ==
    /\ page_table_addr = 0
    /\ page_size = 0
    /\ remain = 0
    /\ layers = <<>>
    /\ page_table_size = 0
    /\ pti_pc = "idle"
    /\ pti = NoInfo

ImgIdle ==
    /\ table_start = 0
    /\ img_page_size = 0
    /\ program = <<>>
    /\ buf = <<>>
    /\ info = NoInfo
    /\ img_pc = "idle"
    /\ dirty = FALSE
    /\ last = <<"none">>
    /\ chk = [op |-> "none"]

(***************************************************************************)
(* Program::load_elf (binfmt/elf.rs).                                      *)
(*                                                                         *)
(* The container is seen through what ElfBytes hands to load_elf: whether  *)
(* minimal_parse succeeded, the header fields, whether there is a segment  *)
(* table, and the PT_LOAD segments in table order. The u32 of the code is  *)
(* scaled to U32Bits bits. In a 32-bit container e_entry, p_filesz,        *)
(* p_memsz, p_vaddr and p_offset are 32-bit fields, so their try_into()    *)
(* to u32 succeeds; they range over the scaled u32.                        *)
(***************************************************************************)
U32Lim == 2 ^ U32Bits

\* The bytes of the input that segment offsets address.
InputBytes == <<1, 2, 3, 4, 5, 6, 7, 8>>

EmptyImage == [a \in {} |-> 0]

NoSegment == [p_type |-> "none"]

NoHeader == [parsed |-> FALSE]

MaxMems == {16, 32}

\* What minimal_parse returned: an error, or a header.
ElfHeaders ==
    {NoHeader} \cup
    [parsed : {TRUE},
     class : {"ELF32", "ELF64"},
     e_machine : {"EM_RISCV", "EM_X86_64"},
     e_type : {"ET_EXEC", "ET_DYN"},
     e_entry : {0, 3, 8, 16, 20},
     has_segments : BOOLEAN,
     phnum : {1, 2, 256, 257}]

\* The PT_LOAD segments tried.
LoadSegments ==
    [p_type : {"PT_LOAD"},
     p_filesz : {0, 3, 8, U32Lim - 1},
     p_memsz : {4, 8, U32Lim - 1},
     p_vaddr : {0, 2, 12, U32Lim - 4},
     p_offset : {0, 2, U32Lim - 2}]

Min(a, b) == IF a < b THEN a ELSE b

\* The header checks of load_elf, from minimal_parse to the segment count.
HeaderCheck_noentry(h, mm) ==
    IF ~h.parsed THEN [status |-> "panic", msg |-> "Could not parse"]
    ELSE IF h.class # "ELF32" THEN [status |-> "err", msg |-> "Not a 32-bit ELF"]
    ELSE IF h.e_machine # "EM_RISCV"
    THEN [status |-> "err", msg |-> "Invalid machine type, must be RISC-V"]
    ELSE IF h.e_type # "ET_EXEC"
    THEN [status |-> "err", msg |-> "Invalid ELF type, must be executable"]
    ELSE IF ~h.has_segments THEN [status |-> "panic", msg |-> "Missing segment table"]
    ELSE IF h.phnum > 256 THEN [status |-> "err", msg |-> "Too many program headers"]
    ELSE [status |-> "ok", msg |-> ""]

HeaderCheck(h, mm) ==
    IF ~h.parsed THEN [status |-> "panic", msg |-> "Could not parse"]
    ELSE IF h.class # "ELF32" THEN [status |-> "err", msg |-> "Not a 32-bit ELF"]
    ELSE IF h.e_machine # "EM_RISCV"
    THEN [status |-> "err", msg |-> "Invalid machine type, must be RISC-V"]
    ELSE IF h.e_type # "ET_EXEC"
    THEN [status |-> "err", msg |-> "Invalid ELF type, must be executable"]
    ELSE IF h.e_entry >= mm \/ h.e_entry % 4 # 0
    THEN [status |-> "err", msg |-> "Invalid entrypoint"]
    ELSE IF ~h.has_segments THEN [status |-> "panic", msg |-> "Missing segment table"]
    ELSE IF h.phnum > 256 THEN [status |-> "err", msg |-> "Too many program headers"]
    ELSE [status |-> "ok", msg |-> ""]

\* The size checks at the head of the segment loop body.
SegmentCheck(s, mm) ==
    IF s.p_filesz >= mm THEN [status |-> "err", msg |-> "Invalid segment file_size"]
    ELSE IF s.p_memsz >= mm THEN [status |-> "err", msg |-> "Invalid segment mem_size"]
    ELSE [status |-> "ok", msg |-> ""]

\* The loop over j in 0..len: (offset + i + j) as usize in u32 arithmetic,
\* input.get(offset), word |= byte << (j * 8). With overflow checks the sum
\* panics when it leaves u32; without them it wraps.
RECURSIVE ReadWord(_, _, _, _, _, _)
ReadWord(off, i, j, len, word, oc) ==
    IF j >= len THEN [status |-> "ok", word |-> word]
    ELSE LET sum == off + i + j
         IN  IF sum >= U32Lim /\ oc
             THEN [status |-> "panic", msg |-> "attempt to add with overflow"]
             ELSE LET at == sum % U32Lim
                  IN  IF at >= Len(InputBytes)
                      THEN [status |-> "panic", msg |-> "Invalid offset."]
                      ELSE ReadWord(off, i, j + 1, len,
                                    word + InputBytes[at + 1] * (256 ^ j), oc)

Insert(img, addr, word) ==
    [a \in DOMAIN img \cup {addr} |-> IF a = addr THEN word ELSE img[a]]

\* One iteration of the loop over i: the address, the word, the insert.
WordStep(img, s, i, oc) ==
    IF s.p_vaddr + i >= U32Lim THEN [status |-> "panic", msg |-> "Invalid segment."]
    ELSE LET addr == s.p_vaddr + i
         IN  IF i >= s.p_filesz THEN [status |-> "ok", image |-> Insert(img, addr, 0)]
             ELSE LET r == ReadWord(s.p_offset, i, 0, Min(s.p_filesz - i, 4), 0, oc)
                  IN  IF r.status = "ok"
                      THEN [status |-> "ok", image |-> Insert(img, addr, r.word)]
                      ELSE r

ElfIdle ==
    /\ elf = NoHeader
    /\ max_mem = 0
    /\ overflow_checks = FALSE
    /\ elf_pc = "idle"
    /\ segment = NoSegment
    /\ seg_i = 0
    /\ loads = 0
    /\ image = EmptyImage
    /\ elf_res = [status |-> "none"]

(***************************************************************************)
(* SyncSlice (zkp/adapter.rs).                                             *)
(*                                                                         *)
(* The underlying buffer is sbuf, elements 0..SyncLen-1. A SyncSlice is a  *)
(* view [ptr, size]: ptr is the index of its first element counted from    *)
(* the start of the buffer, size its field size. usize is scaled to        *)
(* UsizeBits bits.                                                         *)
(***************************************************************************)
UsizeLim == 2 ^ UsizeBits

\* Values written by set; the buffer starts as zeros.
SyncValues == {1, 2}

Workers == {1, 2}

\* SyncSlice::new(buf)
RootView == [ptr |-> 0, size |-> SyncLen]

\* assert!(offset < self.size) of get and set
OffsetAssert(v, offset) == offset < v.size

\* self.ptr.add(offset): the element a get/set/slice addresses. Outside the
\* buffer the pointer is what wrapping address arithmetic gives.
ElemAddr(v, offset) == (v.ptr + offset) % UsizeLim

InBuffer(a) == a < SyncLen

\* assert!(offset + size <= self.size, ..) of slice. With overflow checks
\* the sum panics when it leaves usize; without them it wraps.
SliceAssert(v, offset, size, oc) ==
    LET sum == offset + size
    IN  IF sum >= UsizeLim /\ oc THEN "panic_overflow"
        ELSE IF sum % UsizeLim <= v.size THEN "ok"
        ELSE "panic_assert"

\* SyncSlice::slice(offset, size), when the assertion passes
SliceView(v, offset, size) == [ptr |-> ElemAddr(v, offset), size |-> size]

WriteElem_wide(b, a, val) ==
    [i \in DOMAIN b |-> IF i = a + 1 \/ i = a + 2 THEN val ELSE b[i]]

\* self.ptr.add(offset).write(val)
WriteElem(b, a, val) == [b EXCEPT ![a + 1] = val]

\* self.ptr.add(offset).read()
ReadElem(b, a) == b[a + 1]

NoCall == [op |-> "none"]

\* No set yet on an element.
Unset == 0 - 1

SyncIdle ==
    /\ sbuf = <<>>
    /\ view = RootView
    /\ sync_pc = "idle"
    /\ sync_oc = FALSE
    /\ own = <<>>
    /\ wrote = <<>>
    /\ sync_last = NoCall

PolyIdle ==
    /\ block = <<>>
    /\ fp_vars = <<>>
    /\ mix_vars = <<>>
    /\ mix = ExtZERO
    /\ u = <<>>
    /\ args = <<>>
    /\ pe_pc = "idle"
    /\ ret = 0
    /\ result = MixTrue

GeomInit ==
    /\ ImgIdle
    /\ PolyIdle
    /\ ElfIdle
    /\ SyncIdle
    /\ page_table_addr \in GeomMems
    /\ page_size \in GeomPageSizes
    /\ remain = 0
    /\ layers = <<>>
    /\ page_table_size = 0
    /\ pti_pc = "call"
    /\ pti = NoInfo

\* assert!(max_mem >= page_size) and the initialisation of the locals
PTI_Enter ==
    /\ pti_pc = "call"
    /\ IF page_table_addr >= page_size
       THEN /\ pti_pc' = "loop"
            /\ remain' = page_table_addr
       ELSE /\ pti_pc' = "assert_max_mem"
            /\ UNCHANGED remain
    /\ UNCHANGED <<page_table_addr, page_size, layers, page_table_size, pti>>
    /\ UNCHANGED <<imgVars, polyVars, elfVars, syncVars>>

\* one iteration of `while remain >= page_size`
PTI_LoopIter ==
    /\ pti_pc = "loop"
    /\ remain >= page_size
    /\ IF page_size = 0
       THEN /\ pti_pc' = "div_by_zero"
            /\ UNCHANGED <<remain, layers, page_table_size>>
       ELSE IF \/ LayerRemain(remain, page_size) >= WordCap
               \/ page_table_size + LayerRemain(remain, page_size) >= WordCap
       THEN /\ pti_pc' = "overflow"
            /\ UNCHANGED <<remain, layers, page_table_size>>
       ELSE IF Len(layers) >= MaxLayers
       THEN /\ pti_pc' = "cut"
            /\ UNCHANGED <<remain, layers, page_table_size>>
       ELSE /\ remain' = LayerRemain(remain, page_size)
            /\ layers' = Append(layers, remain')
            /\ page_table_size' = page_table_size + remain'
            /\ UNCHANGED pti_pc
    /\ UNCHANGED <<page_table_addr, page_size, pti>>
    /\ UNCHANGED <<imgVars, polyVars, elfVars, syncVars>>

\* the loop has ended: lines 71-93
PTI_Finish ==
    /\ pti_pc = "loop"
    /\ remain < page_size
    /\ pti' = FinishInfo(page_table_addr, page_size, layers, page_table_size)
    /\ pti_pc' = IF pti'.status = "ok" THEN "done" ELSE pti'.status
    /\ UNCHANGED <<page_table_addr, page_size, remain, layers, page_table_size>>
    /\ UNCHANGED <<imgVars, polyVars, elfVars, syncVars>>

GeomNext == PTI_Enter \/ PTI_LoopIter \/ PTI_Finish

SpecGeom == GeomInit /\ [][GeomNext]_vars

(***************************************************************************)
(* MemoryImage (image.rs).                                                 *)
(*                                                                         *)
(* buf is kept as a function from the index of a 32-byte half-block (the   *)
(* unit hash_page feeds to the compression function, and the size of one   *)
(* page-table entry) to its content. A half-block holds either plain       *)
(* bytes, <<"D", nz>> with nz the set of <<offset, byte>> of its nonzero   *)
(* bytes, or a digest written by hash_pages. The compression function is   *)
(* a free constructor: SHA-256 is taken to be collision-free, and no plain *)
(* half-block equals a digest. PAGE_TABLE.start() is a multiple of         *)
(* BLOCK_BYTES, as it is on the platform, so an entry is one half-block.   *)
(***************************************************************************)
MEM_SIZE == MemBlocks * BLOCK_BYTES

NumCells == MEM_SIZE \div DIGEST_BYTES

ZeroCell == <<"D", {}>>

ZeroBuf == [c \in 0..(NumCells - 1) |-> ZeroCell]

SHA256_INIT == <<"I">>

\* sha::Impl::compress(state, block1, block2)
compress(state, block1, block2) == <<"H", state, block1, block2>>

\* The byte at byte address a.
ByteAt(b, a) ==
    LET cell == b[a \div DIGEST_BYTES]
        off == a % DIGEST_BYTES
    IN  IF cell[1] = "D" /\ \E e \in cell[2] : e[1] = off
        THEN (CHOOSE e \in cell[2] : e[1] = off)[2]
        ELSE 0

\* b with the byte at address a (in a half-block of plain bytes) set to v.
SetByte(b, a, v) ==
    LET c == a \div DIGEST_BYTES
        off == a % DIGEST_BYTES
        old == IF b[c][1] = "D" THEN b[c][2] ELSE {}
        kept == {e \in old : e[1] # off}
    IN  [b EXCEPT ![c] = <<"D", IF v = 0 THEN kept ELSE kept \cup {<<off, v>>}>>]

\* u32::to_le_bytes: byte k (0..3) of a word.
to_be_byte(word, k) == (word \div (256 ^ (3 - k))) % 256

to_le_byte(word, k) == (word \div (256 ^ k)) % 256

\* buf.get_mut(addr..WORD_SIZE + addr) ... copy_from_slice(&bytes[..WORD_SIZE])
RECURSIVE CopyWord(_, _, _, _)
CopyWord(b, addr, word, k) ==
    IF k = WORD_SIZE THEN b
    ELSE CopyWord(SetByte(b, addr + k, to_le_byte(word, k)), addr, word, k + 1)

RECURSIVE LoadWords_skipoob(_, _, _)
LoadWords_skipoob(b, prog, todo) ==
    IF todo = {} THEN [status |-> "ok", buf |-> b]
    ELSE LET addr == CHOOSE a \in todo : \A o \in todo : a <= o
         IN  IF addr + WORD_SIZE > MEM_SIZE
             THEN LoadWords_skipoob(b, prog, todo \ {addr})
             ELSE LoadWords_skipoob(CopyWord(b, addr, prog[addr], 0), prog, todo \ {addr})

\* The loop over program.image, in the BTreeMap's ascending key order.
RECURSIVE LoadWords(_, _, _)
LoadWords(b, prog, todo) ==
    IF todo = {} THEN [status |-> "ok", buf |-> b]
    ELSE LET addr == CHOOSE a \in todo : \A o \in todo : a <= o
         IN  IF addr + WORD_SIZE > MEM_SIZE
             THEN [status |-> "err_capacity"]
             ELSE LoadWords(CopyWord(b, addr, prog[addr], 0), prog, todo \ {addr})

\* The slice buf[start .. start + len] exists and hash_page accepts it.
CanHashPage(start, len) ==
    /\ start + len <= MEM_SIZE
    /\ len % BLOCK_BYTES = 0

RECURSIVE HashBlocks(_, _, _, _)
HashBlocks(b, c, n, state) ==
    IF n = 0 THEN state
    ELSE HashBlocks(b, c + 2, n - 1, compress(state, b[c], b[c + 1]))

hash_page_firstblock(b, start, len) ==
    HashBlocks(b, start \div DIGEST_BYTES, IF len = 0 THEN 0 ELSE 1, SHA256_INIT)

\* hash_page(&buf[start .. start + len])
hash_page(b, start, len) ==
    HashBlocks(b, start \div DIGEST_BYTES, len \div BLOCK_BYTES, SHA256_INIT)

\* The entry slot of a page, as a half-block index.
EntryCell(inf, page_idx) == get_page_entry_addr(inf, page_idx) \div DIGEST_BYTES

\* One iteration of the loop of hash_pages, for page i.
HashOnePage(b, inf, i) ==
    [b EXCEPT ![EntryCell(inf, i)] =
        hash_page(b, get_page_addr(inf, i), inf.page_size)]

RECURSIVE HashPagesFrom_descending(_, _, _, _)
HashPagesFrom_descending(b, inf, i, n) ==
    IF i >= n THEN [status |-> "ok", buf |-> b]
    ELSE IF \/ ~CanHashPage(get_page_addr(inf, n - 1), inf.page_size)
            \/ get_page_entry_addr(inf, n - 1) + DIGEST_BYTES > MEM_SIZE
    THEN [status |-> "panic"]
    ELSE HashPagesFrom_descending(HashOnePage(b, inf, n - 1), inf, i, n - 1)

\* The loop of hash_pages over the pages i..n-1, in ascending order.
RECURSIVE HashPagesFrom(_, _, _, _)
HashPagesFrom(b, inf, i, n) ==
    IF i >= n THEN [status |-> "ok", buf |-> b]
    ELSE IF \/ ~CanHashPage(get_page_addr(inf, i), inf.page_size)
            \/ get_page_entry_addr(inf, i) + DIGEST_BYTES > MEM_SIZE
    THEN [status |-> "panic"]
    ELSE HashPagesFrom(HashOnePage(b, inf, i), inf, i + 1, n)

hash_pages_skiplast(b, inf) == HashPagesFrom(b, inf, 0, inf.num_pages - 1)

\* MemoryImage::hash_pages
hash_pages(b, inf) == HashPagesFrom(b, inf, 0, inf.num_pages)

get_root_emptypage(b, inf) ==
    [status |-> "ok", digest |-> hash_page(b, inf.root_addr, 0)]

\* MemoryImage::get_root
get_root(b, inf) ==
    IF ~CanHashPage(inf.root_page_addr, inf.root_addr - inf.root_page_addr)
    THEN [status |-> "panic"]
    ELSE [status |-> "ok",
          digest |-> hash_page(b, inf.root_page_addr, inf.root_addr - inf.root_page_addr)]

\* The end of MemoryImage::check: the root page against get_root().
CheckRoot(b, inf) ==
    LET root_page_bytes == inf.num_root_entries * DIGEST_BYTES
    IN  IF \/ ~CanHashPage(inf.root_page_addr, root_page_bytes)
           \/ get_root(b, inf).status # "ok"
        THEN [status |-> "panic"]
        ELSE IF hash_page(b, inf.root_page_addr, root_page_bytes) # get_root(b, inf).digest
        THEN [status |-> "err",
              err |-> [msg |-> "Invalid root hash",
                       expected |-> hash_page(b, inf.root_page_addr, root_page_bytes),
                       actual |-> get_root(b, inf).digest]]
        ELSE [status |-> "ok"]

\* The loop of MemoryImage::check from page page_idx on. An entry that does
\* not lie in a later page makes the loop run for ever ("diverge").
RECURSIVE CheckWalk(_, _, _)
CheckWalk(b, inf, page_idx) ==
    IF page_idx >= inf.root_idx THEN CheckRoot(b, inf)
    ELSE IF \/ ~CanHashPage(get_page_addr(inf, page_idx), inf.page_size)
            \/ get_page_entry_addr(inf, page_idx) + DIGEST_BYTES > MEM_SIZE
    THEN [status |-> "panic"]
    ELSE LET expected == hash_page(b, get_page_addr(inf, page_idx), inf.page_size)
             actual == b[EntryCell(inf, page_idx)]
             next == get_page_index(inf, get_page_entry_addr(inf, page_idx))
         IN  IF expected # actual
             THEN [status |-> "err",
                   err |-> [msg |-> "Invalid page table entry",
                            expected |-> expected, actual |-> actual]]
             ELSE IF next <= page_idx THEN [status |-> "diverge"]
             ELSE CheckWalk(b, inf, next)

check_datapage_only(b, inf, addr) ==
    IF get_page_index(inf, addr) >= inf.root_idx THEN CheckRoot(b, inf)
    ELSE LET r == CheckWalk(b, [inf EXCEPT !.root_idx = get_page_index(inf, addr) + 1],
                            get_page_index(inf, addr))
         IN  r

\* MemoryImage::check(addr)
check(b, inf, addr) == CheckWalk(b, inf, get_page_index(inf, addr))

\* MemoryImage::new(program, page_size) on a platform whose page table
\* starts at `table`.
MemoryImageNew(prog, p, table) ==
    LET loaded == LoadWords(ZeroBuf, prog, DOMAIN prog)
        inf == PageTableInfoNew(table, p)
    IN  IF loaded.status # "ok" THEN [status |-> "err_capacity"]
        ELSE IF inf.status # "ok" THEN [status |-> "panic"]
        ELSE LET h == hash_pages(loaded.buf, inf)
             IN  IF h.status # "ok" THEN [status |-> "panic"]
                 ELSE [status |-> "ok", buf |-> h.buf, info |-> inf]

(***************************************************************************)
(* The image as a state machine: construction, the operations of           *)
(* MemoryImage, and writes to buf by its owner (buf is a public field).    *)
(***************************************************************************)
TableStarts == {k * BLOCK_BYTES : k \in 1..MaxTableBlocks}

ImgPageSizes == {k * BLOCK_BYTES : k \in 1..MaxPageBlocks}

\* Word addresses of program images: in a data page, across two half-blocks,
\* in the page-table region, and at the end of the buffer.
ProgAddrs == {0, 30, 2 * BLOCK_BYTES + 8, 5 * BLOCK_BYTES, MEM_SIZE - WORD_SIZE, MEM_SIZE - 2}

ProgWords == {1, 258}

Programs ==
    UNION {[d -> ProgWords] : d \in {x \in SUBSET ProgAddrs : Cardinality(x) <= MaxWords}}

\* Addresses of the bytes the owner overwrites.
FlipAddrs == {1, BLOCK_BYTES + 33}

Flipped(v) == IF v % 2 = 0 THEN v + 1 ELSE v - 1

ImgInit ==
    /\ GeomIdle
    /\ PolyIdle
    /\ ElfIdle
    /\ SyncIdle
    /\ table_start \in TableStarts
    /\ img_page_size \in ImgPageSizes
    /\ program \in Programs
    /\ buf = <<>>
    /\ info = NoInfo
    /\ img_pc = "start"
    /\ dirty = FALSE
    /\ last = <<"none">>
    /\ chk = [op |-> "none"]

MI_New ==
    /\ img_pc = "start"
    /\ LET r == MemoryImageNew(program, img_page_size, table_start)
       IN  IF r.status = "ok"
           THEN /\ img_pc' = "ready"
                /\ buf' = r.buf
                /\ info' = r.info
           ELSE /\ img_pc' = r.status
                /\ UNCHANGED <<buf, info>>
    /\ last' = <<"new">>
    /\ UNCHANGED <<table_start, img_page_size, program, dirty, chk>>
    /\ UNCHANGED <<geomVars, polyVars, elfVars, syncVars>>

MI_HashPages ==
    /\ img_pc = "ready"
    /\ LET r == hash_pages(buf, info)
       IN  IF r.status = "ok"
           THEN /\ buf' = r.buf
                /\ UNCHANGED img_pc
           ELSE /\ img_pc' = "panic"
                /\ UNCHANGED buf
    /\ dirty' = FALSE
    /\ last' = <<"hash_pages", dirty>>
    /\ chk' = [op |-> "none"]
    /\ UNCHANGED <<table_start, img_page_size, program, info>>
    /\ UNCHANGED <<geomVars, polyVars, elfVars, syncVars>>

\* Addresses check is called with: the loaded ones, the root page, the
\* first bytes of every page.
CheckAddrs ==
    IF img_pc # "ready" THEN {}
    ELSE (DOMAIN program) \cup {info.root_page_addr}
            \cup {get_page_addr(info, i) : i \in 0..info.root_idx}

HashedPages == IF img_pc # "ready" THEN {} ELSE 0..(info.num_pages - 1)

MI_Check(addr) ==
    /\ img_pc = "ready"
    /\ chk' = [op |-> "check", addr |-> addr, res |-> check(buf, info, addr)]
    /\ last' = IF last[1] \in {"new", "new_check"} THEN <<"new_check">> ELSE <<"check">>
    /\ UNCHANGED <<table_start, img_page_size, program, buf, info, img_pc, dirty>>
    /\ UNCHANGED <<geomVars, polyVars, elfVars, syncVars>>

MI_GetRoot ==
    /\ img_pc = "ready"
    /\ chk' = [op |-> "get_root", res |-> get_root(buf, info)]
    /\ last' = <<"get_root">>
    /\ UNCHANGED <<table_start, img_page_size, program, buf, info, img_pc, dirty>>
    /\ UNCHANGED <<geomVars, polyVars, elfVars, syncVars>>

\* The owner flips one byte of a data page.
Owner_FlipByte(addr) ==
    /\ img_pc = "ready"
    /\ ~dirty
    /\ addr < info.page_table_addr
    /\ buf' = SetByte(buf, addr, Flipped(ByteAt(buf, addr)))
    /\ dirty' = TRUE
    /\ last' = <<"flip", addr>>
    /\ chk' = [op |-> "none"]
    /\ UNCHANGED <<table_start, img_page_size, program, info, img_pc>>
    /\ UNCHANGED <<geomVars, polyVars, elfVars, syncVars>>

\* The owner flips one byte of a data page and recomputes that page's
\* digest into its entry slot (one iteration of the loop of hash_pages).
Owner_FlipAndRehashPage(addr) ==
    /\ img_pc = "ready"
    /\ ~dirty
    /\ addr < info.page_table_addr
    /\ get_page_index(info, addr) < info.num_pages
    /\ buf' = HashOnePage(SetByte(buf, addr, Flipped(ByteAt(buf, addr))), info,
                          get_page_index(info, addr))
    /\ dirty' = TRUE
    /\ last' = <<"flip_rehash_page", addr>>
    /\ chk' = [op |-> "none"]
    /\ UNCHANGED <<table_start, img_page_size, program, info, img_pc>>
    /\ UNCHANGED <<geomVars, polyVars, elfVars, syncVars>>

\* The owner flips one byte of a data page and calls hash_pages.
Owner_FlipAndHashPages(addr) ==
    /\ img_pc = "ready"
    /\ ~dirty
    /\ addr < info.page_table_addr
    /\ LET r == hash_pages(SetByte(buf, addr, Flipped(ByteAt(buf, addr))), info)
       IN  IF r.status = "ok"
           THEN /\ buf' = r.buf
                /\ UNCHANGED img_pc
           ELSE /\ img_pc' = "panic"
                /\ UNCHANGED buf
    /\ dirty' = FALSE
    /\ last' = <<"flip_hash_pages", addr>>
    /\ chk' = [op |-> "none"]
    /\ UNCHANGED <<table_start, img_page_size, program, info>>
    /\ UNCHANGED <<geomVars, polyVars, elfVars, syncVars>>

\* The owner overwrites the entry slot of a page with zero bytes.
Owner_ZeroEntry(page_idx) ==
    /\ img_pc = "ready"
    /\ ~dirty
    /\ buf[EntryCell(info, page_idx)] # ZeroCell
    /\ buf' = [buf EXCEPT ![EntryCell(info, page_idx)] = ZeroCell]
    /\ dirty' = TRUE
    /\ last' = <<"zero_entry", page_idx>>
    /\ chk' = [op |-> "none"]
    /\ UNCHANGED <<table_start, img_page_size, program, info, img_pc>>
    /\ UNCHANGED <<geomVars, polyVars, elfVars, syncVars>>

ImgNext ==
    \/ MI_New
    \/ MI_HashPages
    \/ \E addr \in CheckAddrs : MI_Check(addr)
    \/ MI_GetRoot
    \/ \E addr \in FlipAddrs : Owner_FlipByte(addr)
    \/ \E addr \in FlipAddrs : Owner_FlipAndRehashPage(addr)
    \/ \E addr \in FlipAddrs : Owner_FlipAndHashPages(addr)
    \/ \E i \in HashedPages : Owner_ZeroEntry(i)

SpecImage == ImgInit /\ [][ImgNext]_vars

(***************************************************************************)
(* PolyExtStep::step and PolyExtStepDef::step.                             *)
(***************************************************************************)
\* v[i] of a Rust slice or Vec (0-based); an index out of range panics.
InRange(v, i) == i < Len(v)

At(v, i) == v[i + 1]

IsFpOp(o) == o.op \in {"Const", "Get", "GetGlobal", "Add", "Sub", "Mul"}

IsMixOp(o) == o.op \in {"True", "AndEqz", "AndCond"}

\* PolyExtStep::step: the register files after op o, or a panic when an
\* index of o is out of range.
PolyExtStep_step(o, fp, mx, mixv, uu, aa) ==
    LET pushFp(e) == [status |-> "ok", fp_vars |-> Append(fp, e), mix_vars |-> mx]
        pushMix(m) == [status |-> "ok", fp_vars |-> fp, mix_vars |-> Append(mx, m)]
        panic == [status |-> "panic_index"]
    IN  CASE o.op = "Const" -> pushFp(from_subfield(from_u64(o.value)))
          [] o.op = "Get" ->
                IF InRange(uu, o.tap) THEN pushFp(At(uu, o.tap)) ELSE panic
          [] o.op = "GetGlobal" ->
                IF InRange(aa, o.base) /\ InRange(At(aa, o.base), o.offset)
                THEN pushFp(from_subfield(At(At(aa, o.base), o.offset)))
                ELSE panic
          [] o.op = "Add" ->
                IF InRange(fp, o.x1) /\ InRange(fp, o.x2)
                THEN pushFp(ExtAdd(At(fp, o.x1), At(fp, o.x2))) ELSE panic
          [] o.op = "Sub" ->
                IF InRange(fp, o.x1) /\ InRange(fp, o.x2)
                THEN pushFp(ExtSub(At(fp, o.x1), At(fp, o.x2))) ELSE panic
          [] o.op = "Mul" ->
                IF InRange(fp, o.x1) /\ InRange(fp, o.x2)
                THEN pushFp(ExtMul(At(fp, o.x1), At(fp, o.x2))) ELSE panic
          [] o.op = "True" -> pushMix(MixTrue)
          [] o.op = "AndEqz" ->
                IF InRange(mx, o.x) /\ InRange(fp, o.val)
                THEN pushMix(AndEqz(At(mx, o.x), At(fp, o.val), mixv)) ELSE panic
          [] o.op = "AndCond" ->
                IF InRange(mx, o.x) /\ InRange(fp, o.cond) /\ InRange(mx, o.inner)
                THEN pushMix(AndCond(At(mx, o.x), At(fp, o.cond), At(mx, o.inner)))
                ELSE panic

CapacityCheck_retonly(blockLen, nFp, nMix, r) ==
    IF r >= nMix THEN "panic_index" ELSE "ok"

\* The end of PolyExtStepDef::step: the two assert_eq! and the index
\* mix_vars[self.ret]. block.len() - (ret + 1) is computed in usize.
CapacityCheck(blockLen, nFp, nMix, r) ==
    IF r + 1 > blockLen THEN "panic_capacity_underflow"
    ELSE IF nFp # blockLen - (r + 1) THEN "panic_fp_capacity"
    ELSE IF nMix # r + 1 THEN "panic_mix_capacity"
    ELSE IF r >= nMix THEN "panic_index"
    ELSE "ok"

(***************************************************************************)
(* One evaluation: the ops of the block are stepped in program order, then *)
(* the capacities are asserted and mix_vars[ret] returned. The block is    *)
(* revealed as it is stepped; ret is read when the loop has ended.         *)
(***************************************************************************)
\* The inputs of the evaluations explored: the mixing challenge (the unit,
\* a base-field element, a proper extension element), one tap that is zero
\* or not, one global equal to one.
MixChoices == {<<1, 0>>, <<2, 0>>, <<2, 1>>}

TapVectors == {<< <<0, 0>> >>, << <<1, 2>> >>}

Globals == << <<1>> >>

ConstValues == {5}

RetChoices == {0, 1}

PolyInit ==
    /\ GeomIdle
    /\ ImgIdle
    /\ ElfIdle
    /\ SyncIdle
    /\ block = <<>>
    /\ fp_vars = <<>>
    /\ mix_vars = <<>>
    /\ mix \in MixChoices
    /\ u \in TapVectors
    /\ args = Globals
    /\ pe_pc = "run"
    /\ ret = 0
    /\ result = MixTrue

\* op.step::<F>(&mut fp_vars, &mut mix_vars, mix, u, args) for the next op o
StepOp(o) ==
    /\ pe_pc = "run"
    /\ Len(block) < MaxOps
    /\ block' = Append(block, o)
    /\ LET r == PolyExtStep_step(o, fp_vars, mix_vars, mix, u, args)
       IN  IF r.status = "ok"
           THEN /\ fp_vars' = r.fp_vars
                /\ mix_vars' = r.mix_vars
                /\ UNCHANGED pe_pc
           ELSE /\ pe_pc' = r.status
                /\ UNCHANGED <<fp_vars, mix_vars>>
    /\ UNCHANGED <<mix, u, args, ret, result>>
    /\ UNCHANGED <<geomVars, imgVars, elfVars, syncVars>>

\* Operand indices of the blocks explored: the newest fp value, and the
\* oldest or the newest mix value. On an empty register file the index 0
\* is out of range.
FpLast == IF Len(fp_vars) = 0 THEN 0 ELSE Len(fp_vars) - 1

MixEnds == {i \in {0, Len(mix_vars) - 1} : i >= 0}

PE_Const == \E v \in ConstValues : StepOp([op |-> "Const", value |-> v])

PE_Get == StepOp([op |-> "Get", tap |-> 0])

PE_GetGlobal == StepOp([op |-> "GetGlobal", base |-> 0, offset |-> 0])

PE_Add == StepOp([op |-> "Add", x1 |-> FpLast, x2 |-> 0])

PE_Sub == StepOp([op |-> "Sub", x1 |-> FpLast, x2 |-> 0])

PE_Mul == StepOp([op |-> "Mul", x1 |-> FpLast, x2 |-> 0])

PE_True == StepOp([op |-> "True"])

PE_AndEqz == \E x \in MixEnds : StepOp([op |-> "AndEqz", x |-> x, val |-> FpLast])

PE_AndCond ==
    \E x \in MixEnds, i \in MixEnds :
        StepOp([op |-> "AndCond", x |-> x, cond |-> FpLast, inner |-> i])

\* mix_vars[self.ret]
PE_Result(mx, r) == At(mx, r)

\* The loop has ended: the assertions and the returned accumulator.
PE_Return(r) ==
    /\ pe_pc = "run"
    /\ ret' = r
    /\ LET c == CapacityCheck(Len(block), Len(fp_vars), Len(mix_vars), r)
       IN  IF c = "ok"
           THEN /\ pe_pc' = "returned"
                /\ result' = PE_Result(mix_vars, r)
           ELSE /\ pe_pc' = c
                /\ UNCHANGED result
    /\ UNCHANGED <<block, fp_vars, mix_vars, mix, u, args>>
    /\ UNCHANGED <<geomVars, imgVars, elfVars, syncVars>>

PolyNext ==
    \/ PE_Const
    \/ PE_Get
    \/ PE_GetGlobal
    \/ PE_Add
    \/ PE_Sub
    \/ PE_Mul
    \/ PE_True
    \/ PE_AndEqz
    \/ PE_AndCond
    \/ \E r \in RetChoices : PE_Return(r)

SpecPoly == PolyInit /\ [][PolyNext]_vars

(***************************************************************************)
(* load_elf as a process: the header checks, then the PT_LOAD segments,    *)
(* one word at a time.                                                     *)
(***************************************************************************)
ElfInit ==
    /\ GeomIdle
    /\ ImgIdle
    /\ PolyIdle
    /\ SyncIdle
    /\ elf \in ElfHeaders
    /\ max_mem \in MaxMems
    /\ overflow_checks \in BOOLEAN
    /\ elf_pc = "start"
    /\ segment = NoSegment
    /\ seg_i = 0
    /\ loads = 0
    /\ image = EmptyImage
    /\ elf_res = [status |-> "none"]

ElfEnd(status, msg) ==
    /\ elf_pc' = status
    /\ elf_res' = [status |-> status, msg |-> msg]

\* minimal_parse, the class, machine, type and entry checks, segments(),
\* the segment count
LE_Header ==
    /\ elf_pc = "start"
    /\ LET c == HeaderCheck(elf, max_mem)
       IN  IF c.status = "ok"
           THEN /\ elf_pc' = "segments"
                /\ UNCHANGED elf_res
           ELSE ElfEnd(c.status, c.msg)
    /\ UNCHANGED <<elf, max_mem, overflow_checks, segment, seg_i, loads, image>>
    /\ UNCHANGED <<geomVars, imgVars, polyVars, syncVars>>

\* The next PT_LOAD segment of the table: file_size, mem_size, vaddr, offset
LE_Segment ==
    /\ elf_pc = "segments"
    /\ loads < Min(elf.phnum, MaxLoads)
    /\ \E s \in LoadSegments :
          LET c == SegmentCheck(s, max_mem)
          IN  IF c.status = "ok"
              THEN /\ segment' = s
                   /\ seg_i' = 0
                   /\ loads' = loads + 1
                   /\ elf_pc' = IF s.p_memsz = 0 THEN "segments" ELSE "words"
                   /\ UNCHANGED elf_res
              ELSE /\ ElfEnd(c.status, c.msg)
                   /\ segment' = s
                   /\ UNCHANGED <<seg_i, loads>>
    /\ UNCHANGED <<elf, max_mem, overflow_checks, image>>
    /\ UNCHANGED <<geomVars, imgVars, polyVars, syncVars>>

\* One iteration of for i in (0..mem_size).step_by(4)
LE_Word ==
    /\ elf_pc = "words"
    /\ LET r == WordStep(image, segment, seg_i, overflow_checks)
       IN  IF r.status = "ok"
           THEN /\ image' = r.image
                /\ IF seg_i + 4 < segment.p_memsz
                   THEN /\ seg_i' = seg_i + 4
                        /\ UNCHANGED <<elf_pc, segment>>
                   ELSE /\ seg_i' = 0
                        /\ segment' = NoSegment
                        /\ elf_pc' = "segments"
                /\ UNCHANGED elf_res
           ELSE /\ ElfEnd(r.status, r.msg)
                /\ UNCHANGED <<image, seg_i, segment>>
    /\ UNCHANGED <<elf, max_mem, overflow_checks, loads>>
    /\ UNCHANGED <<geomVars, imgVars, polyVars, syncVars>>

\* Ok(Program { entry, image }) after the last PT_LOAD segment
LE_Return ==
    /\ elf_pc = "segments"
    /\ elf_pc' = "ok"
    /\ elf_res' = [status |-> "ok", entry |-> elf.e_entry, image |-> image]
    /\ UNCHANGED <<elf, max_mem, overflow_checks, segment, seg_i, loads, image>>
    /\ UNCHANGED <<geomVars, imgVars, polyVars, syncVars>>

ElfNext ==
    \/ LE_Header
    \/ LE_Segment
    \/ LE_Word
    \/ LE_Return

SpecElf == ElfInit /\ [][ElfNext]_vars

(***************************************************************************)
(* SyncSlice as a process: two workers share the SyncSlice made by new and *)
(* one view made from it by a chain of slice calls, and call get, set and  *)
(* slice in any interleaving. Each call is one step: get and set are one   *)
(* read or write of one element. The workers keep the caller discipline:   *)
(* worker w addresses, among the elements of the buffer, only those of     *)
(* own[w], and own[1], own[2] are disjoint.                                *)
(***************************************************************************)
\* Offsets and sizes passed to get, set and slice.
SyncOffsets == {0, 1, SyncLen, UsizeLim - 1}

SyncSizes == 1..SyncLen

\* The ways the elements are shared out between the two workers.
Ownerships ==
    {<<{a \in 0..(SyncLen - 1) : a % 2 = 0}, {a \in 0..(SyncLen - 1) : a % 2 = 1}>>,
     <<{0}, 1..(SyncLen - 1)>>}

\* The SyncSlices a worker can call: the one made by new, the view.
Slices == {"root", "view"}

SliceOf(s) == IF s = "root" THEN RootView ELSE view

SyncInit ==
    /\ GeomIdle
    /\ ImgIdle
    /\ PolyIdle
    /\ ElfIdle
    /\ sbuf = [i \in 1..SyncLen |-> 0]
    /\ view = RootView
    /\ sync_pc = "run"
    /\ sync_oc \in BOOLEAN
    /\ own \in Ownerships
    /\ wrote = [w \in Workers |-> [a \in 0..(SyncLen - 1) |-> Unset]]
    /\ sync_last = NoCall

SyncFrame == UNCHANGED <<geomVars, imgVars, polyVars, elfVars>>

\* The calls the discipline allows worker w: those that do not address an
\* element of the buffer owned by the other worker.
Disciplined(w, v, offset) ==
    (OffsetAssert(v, offset) /\ InBuffer(ElemAddr(v, offset)))
        => ElemAddr(v, offset) \in own[w]

\* view = SliceOf(s).slice(offset, size), by worker w
SS_Slice(w, s, offset, size) ==
    /\ sync_pc = "run"
    /\ LET a == SliceAssert(SliceOf(s), offset, size, sync_oc)
       IN  IF a = "ok"
           THEN /\ view' = SliceView(SliceOf(s), offset, size)
                /\ UNCHANGED sync_pc
           ELSE /\ sync_pc' = a
                /\ UNCHANGED view
    /\ sync_last' = [op |-> "slice", w |-> w]
    /\ UNCHANGED <<sbuf, sync_oc, own, wrote>>
    /\ SyncFrame

\* SliceOf(s).set(offset, val), by worker w
SS_Set(w, s, offset, val) ==
    /\ sync_pc = "run"
    /\ Disciplined(w, SliceOf(s), offset)
    /\ LET v == SliceOf(s)
           a == ElemAddr(v, offset)
       IN  IF ~OffsetAssert(v, offset)
           THEN sync_pc' = "panic_assert" /\ UNCHANGED <<sbuf, wrote>>
           ELSE IF ~InBuffer(a)
           THEN sync_pc' = "out_of_bounds" /\ UNCHANGED <<sbuf, wrote>>
           ELSE /\ sbuf' = WriteElem(sbuf, a, val)
                /\ wrote' = [wrote EXCEPT ![w][a] = val]
                /\ UNCHANGED sync_pc
    /\ sync_last' = [op |-> "set", w |-> w, a |-> ElemAddr(SliceOf(s), offset), val |-> val]
    /\ UNCHANGED <<view, sync_oc, own>>
    /\ SyncFrame

\* SliceOf(s).get(offset), by worker w
SS_Get(w, s, offset) ==
    /\ sync_pc = "run"
    /\ Disciplined(w, SliceOf(s), offset)
    /\ LET v == SliceOf(s)
           a == ElemAddr(v, offset)
       IN  IF ~OffsetAssert(v, offset)
           THEN /\ sync_pc' = "panic_assert"
                /\ sync_last' = [op |-> "get", w |-> w, a |-> a, val |-> Unset]
           ELSE IF ~InBuffer(a)
           THEN /\ sync_pc' = "out_of_bounds"
                /\ sync_last' = [op |-> "get", w |-> w, a |-> a, val |-> Unset]
           ELSE /\ UNCHANGED sync_pc
                /\ sync_last' = [op |-> "get", w |-> w, a |-> a, val |-> ReadElem(sbuf, a)]
    /\ UNCHANGED <<sbuf, view, sync_oc, own, wrote>>
    /\ SyncFrame

SyncNext ==
    \/ \E w \in Workers, s \in Slices, offset \in SyncOffsets, size \in SyncSizes :
          SS_Slice(w, s, offset, size)
    \/ \E w \in Workers, s \in Slices, offset \in SyncOffsets, val \in SyncValues :
          SS_Set(w, s, offset, val)
    \/ \E w \in Workers, s \in Slices, offset \in SyncOffsets : SS_Get(w, s, offset)

SpecSync == SyncInit /\ [][SyncNext]_vars

(***************************************************************************)
(* Claims on PageTableInfo::new (checked under SpecGeom).                  *)
(***************************************************************************)
PTI_Returned == pti_pc \notin {"call", "loop"}

\* C4 (as claimed): for every page size p and every ceiling m >= p,
\* PageTableInfo::new(m, p) never fails its assertion
\* assert_eq!(root_idx, num_pages), and the geometry it returns has
\* root_idx = num_pages = floor((m + unrounded table size) / p).
C4_RootIdxIsNumPages ==
    page_table_addr >= page_size =>
        /\ pti_pc # "assert_root_idx"
        /\ pti_pc = "done" =>
              /\ pti.root_idx = pti.num_pages
              /\ pti.num_pages = (page_table_addr + page_table_size) \div page_size

\* C5 (as claimed): for every page size and every m >= p each iteration of
\* the layer loop replaces remain by floor(remain / p) * DIGEST_BYTES, which
\* is strictly smaller than remain.
C5_DecreaseForAllPageSizes ==
    [][(pti_pc = "loop" /\ remain >= page_size) =>
          /\ pti_pc' = "loop"
          /\ remain' < remain
          /\ remain' = (remain \div page_size) * DIGEST_BYTES]_vars

StrictlyDecreasing(s) ==
    \A i \in 1..(Len(s) - 1) : s[i] > s[i + 1]

\* C5 (amended): for every page size p > DIGEST_BYTES and every m >= p,
\* while the accumulated table size stays in the word range, each iteration
\* replaces remain by floor(remain / p) * DIGEST_BYTES < remain and records
\* it; the loop is never cut short, and when it has ended the recorded
\* layers are strictly decreasing, all but the last are at least one page
\* and the last one is smaller than one page.
C5_LayerLoopDecreases ==
    /\ [][(pti_pc = "loop" /\ remain >= page_size /\ page_size > DIGEST_BYTES
           /\ pti_pc' # "overflow") =>
             /\ pti_pc' = "loop"
             /\ remain' < remain
             /\ remain' = (remain \div page_size) * DIGEST_BYTES
             /\ layers' = Append(layers, remain')]_vars
    /\ []((page_size > DIGEST_BYTES /\ page_table_addr >= page_size) =>
             /\ pti_pc # "cut"
             /\ (PTI_Returned /\ pti_pc # "overflow") =>
                   /\ Len(layers) >= 1
                   /\ StrictlyDecreasing(layers)
                   /\ layers[1] < page_table_addr
                   /\ layers[Len(layers)] < page_size
                   /\ \A i \in 1..(Len(layers) - 1) : layers[i] >= page_size)

C5_Witness ==
    /\ pti_pc = "done"
    /\ page_size > DIGEST_BYTES
    /\ Len(layers) >= 3

\* The layers as C6 states them: l1 = floor(m/p)*32, l(k+1) = floor(lk/p)*32,
\* up to and including the first layer smaller than p.
RECURSIVE ClaimedLayers(_, _)
ClaimedLayers(x, p) ==
    LET l == (x \div p) * 32
    IN  IF l < p THEN <<l>> ELSE <<l>> \o ClaimedLayers(l, p)

RECURSIVE SeqSum(_)
SeqSum(s) == IF s = <<>> THEN 0 ELSE s[1] + SeqSum(Tail(s))

\* The least multiple of 64 that is >= n.
LeastMultipleOf64(n) == CHOOSE k \in n..(n + 63) : k % 64 = 0

\* C6: whenever PageTableInfo::new(m, p) returns, its layers are
\* l1 = floor(m/p)*32, l(k+1) = floor(lk/p)*32 up to and including the first
\* one smaller than p, the table size is their sum rounded up to a multiple
\* of 64, root_addr = m + table size, root_page_addr = floor(root_addr/p)*p
\* and num_root_entries = floor((root_addr - root_page_addr)/32). The calls of the
\* unit tests return, with: m = 0x1A00, p = 1024: layers [192], table size
\* 192, root_addr 0x1AC0, root_page_addr 0x1800, 22 root entries; m = p and
\* m = 2p (pages of 128 bytes, 1 KiB, 4 KiB): table size 64; m = 256 * 1024,
\* p = 1024: table size 32*256 + 256.
C6_GeometryValues ==
    /\ pti_pc = "done" =>
          /\ pti.layers = ClaimedLayers(page_table_addr, page_size)
          /\ pti.page_table_size = LeastMultipleOf64(SeqSum(pti.layers))
          /\ pti.root_addr = page_table_addr + pti.page_table_size
          /\ pti.root_page_addr = (pti.root_addr \div page_size) * page_size
          /\ pti.num_root_entries * 32 <= pti.root_addr - pti.root_page_addr
          /\ pti.root_addr - pti.root_page_addr < (pti.num_root_entries + 1) * 32
    /\ (PTI_Returned /\ page_table_addr = 6656 /\ page_size = 1024) =>
          /\ pti_pc = "done"
          /\ pti.layers = <<192>>
          /\ pti.page_table_size = 192
          /\ pti.root_addr = 6848
          /\ pti.root_page_addr = 6144
          /\ pti.num_root_entries = 22
    /\ (PTI_Returned /\ page_size \in {128, 1024, 4096}
        /\ page_table_addr \in {page_size, 2 * page_size}) =>
          /\ pti_pc = "done"
          /\ pti.page_table_size = 64
    /\ (PTI_Returned /\ page_table_addr = 262144 /\ page_size = 1024) =>
          /\ pti_pc = "done"
          /\ pti.page_table_size = 32 * 256 + 256

C6_Witness ==
    /\ pti_pc = "done"
    /\ page_table_addr = 6656
    /\ page_size = 1024
    /\ pti.num_root_entries = 22

(***************************************************************************)
(* Claims on MemoryImage (checked under SpecImage).                        *)
(***************************************************************************)
\* The digest of page i recomputed from buf, and the one stored for it.
RecomputedDigest(i) == hash_page(buf, i * info.page_size, info.page_size)

StoredDigest(i) == buf[(info.page_table_addr + 32 * i) \div 32]

\* The pages the integrity walk from page i visits below the root, in order:
\* page, page containing its entry slot, and so on.
RECURSIVE WalkedPages(_)
WalkedPages(i) ==
    IF i >= info.root_idx THEN <<>>
    ELSE LET up == (info.page_table_addr + 32 * i) \div info.page_size
         IN  IF up <= i THEN <<i>> ELSE <<i>> \o WalkedPages(up)

Mismatches(walk) == {k \in 1..Len(walk) : RecomputedDigest(walk[k]) # StoredDigest(walk[k])}

FirstMismatch(walk) == walk[CHOOSE k \in Mismatches(walk) : \A j \in Mismatches(walk) : k <= j]

\* C1: in an image produced by MemoryImage::new (and not written since its
\* digests were computed), check(addr) succeeds from every loaded address
\* and from the root page address: every page on the walk up to the root
\* has a stored digest equal to its recomputed digest.
C1_RoundTrip ==
    (chk.op = "check" /\ ~dirty
     /\ chk.addr \in (DOMAIN program) \cup {info.root_page_addr}) =>
        /\ chk.res.status = "ok"
        /\ Mismatches(WalkedPages(chk.addr \div info.page_size)) = {}

C1_Witness ==
    /\ chk.op = "check"
    /\ ~dirty
    /\ last = <<"new_check">>
    /\ chk.addr \in DOMAIN program
    /\ chk.res.status = "ok"
    /\ Len(WalkedPages(chk.addr \div info.page_size)) >= 2

\* C2 (as claimed): an error returned by check names the first offending
\* page index.
C2_ErrorNamesPageIndex ==
    (chk.op = "check" /\ chk.res.status = "err") =>
        /\ "page_idx" \in DOMAIN chk.res.err
        /\ chk.res.err.page_idx = FirstMismatch(WalkedPages(chk.addr \div info.page_size))

\* C2 (amended): check(addr) walks page -> entry -> containing page up to
\* the root index; it succeeds exactly when no page on the walk has a
\* recomputed digest different from its stored one, and otherwise returns
\* the error "Invalid page table entry" carrying the recomputed and the
\* stored digest of the first offending page (the error does not hold the
\* page index); the final comparison of the root page with get_root() never
\* fails.
C2_TamperDetected ==
    chk.op = "check" =>
        LET walk == WalkedPages(chk.addr \div info.page_size)
        IN  IF Mismatches(walk) = {}
            THEN chk.res.status = "ok"
            ELSE /\ chk.res.status = "err"
                 /\ chk.res.err.msg = "Invalid page table entry"
                 /\ chk.res.err.expected = RecomputedDigest(FirstMismatch(walk))
                 /\ chk.res.err.actual = StoredDigest(FirstMismatch(walk))

\* a mismatch above the data page: the first offending page is a table page
C2_Witness ==
    /\ chk.op = "check"
    /\ chk.res.status = "err"
    /\ LET walk == WalkedPages(chk.addr \div info.page_size)
       IN  /\ Len(walk) >= 2
           /\ FirstMismatch(walk) # walk[1]

RootOf(b, inf) == get_root(b, inf)

EntriesBelowRoot == info.num_pages * 32 <= info.page_table_size

C7_HashPagesIdempotent ==
    [][(img_pc = "ready" /\ ~dirty /\ last'[1] = "hash_pages") =>
          /\ img_pc' = "ready"
          /\ buf' = buf
          /\ RootOf(buf', info') = RootOf(buf, info)]_vars

C7_Witness ==
    /\ last = <<"hash_pages", FALSE>>
    /\ img_pc = "ready"
    /\ Len(info.layers) >= 2
    /\ program # <<>>

(***************************************************************************)
(* Claims on the constraint interpreter (checked under SpecPoly).          *)
(***************************************************************************)
\* A step of the loop that evaluated an op of kind k without a panic.
Stepped(k) ==
    /\ pe_pc = "run"
    /\ pe_pc' = "run"
    /\ Len(block') = Len(block) + 1
    /\ block'[Len(block')].op = k

LastOp == block[Len(block)]

Newest(mx) == mx[Len(mx)]

\* C8: an AndEqz(x, val) step leaves the fp register file alone and
\* appends to the mix register file exactly (x.tot + x.mul*val, x.mul*mix),
\* for every value of x, val and mix; the appended mul is x.mul*mix whatever
\* val is, and when val is zero the appended tot is x.tot.
C8_AndEqzAppends ==
    [][Stepped("AndEqz") =>
        LET o == block'[Len(block')]
            x == At(mix_vars, o.x)
            val == At(fp_vars, o.val)
        IN  /\ fp_vars' = fp_vars
            /\ mix_vars' = Append(mix_vars,
                   [tot |-> ExtAdd(x.tot, ExtMul(x.mul, val)), mul |-> ExtMul(x.mul, mix)])
            /\ Newest(mix_vars').mul = ExtMul(x.mul, mix)
            /\ (val = ExtZERO => Newest(mix_vars').tot = x.tot)]_vars

\* An AndEqz has just been stepped with a nonzero val onto an accumulator
\* whose mul is no longer one, under a challenge outside the base field.
C8_Witness ==
    /\ pe_pc = "run"
    /\ Len(block) > 0
    /\ LastOp.op = "AndEqz"
    /\ At(fp_vars, LastOp.val) # ExtZERO
    /\ At(mix_vars, LastOp.x).mul # ExtONE
    /\ mix[2] # 0
    /\ Newest(mix_vars).tot # At(mix_vars, LastOp.x).tot

\* The op of blk that produced the mix value of index j.
RECURSIVE MixOpAt(_, _)
MixOpAt(blk, j) ==
    IF IsMixOp(Head(blk))
    THEN IF j = 0 THEN Head(blk) ELSE MixOpAt(Tail(blk), j - 1)
    ELSE MixOpAt(Tail(blk), j)

\* The values v_0..v_(k-1) when the mix value of index j was produced by
\* True followed by AndEqz of v_0, ..., v_(k-1).
RECURSIVE ZeroAssertions(_, _, _)
ZeroAssertions(blk, fp, j) ==
    LET o == MixOpAt(blk, j)
    IN  IF o.op = "True" THEN [chain |-> TRUE, vals |-> <<>>]
        ELSE IF o.op = "AndEqz"
        THEN LET c == ZeroAssertions(blk, fp, o.x)
             IN  [chain |-> c.chain, vals |-> Append(c.vals, At(fp, o.val))]
        ELSE [chain |-> FALSE, vals |-> <<>>]

\* AndEqz(v_0), ..., AndEqz(v_(k-1)) applied in that order to x.
RECURSIVE FoldOnto(_, _, _)
FoldOnto(x, vals, mixv) ==
    IF vals = <<>> THEN x
    ELSE FoldOnto([tot |-> ExtAdd(x.tot, ExtMul(x.mul, Head(vals))),
                   mul |-> ExtMul(x.mul, mixv)], Tail(vals), mixv)

\* C9: an AndCond(x, cond, inner) step appends
\* (x.tot + cond*inner.tot*x.mul, x.mul*inner.mul); with cond zero the
\* appended tot is x.tot; with cond one and inner produced by True followed
\* by AndEqz of v_0..v_(k-1), the appended accumulator is the one obtained
\* by applying AndEqz(v_0), ..., AndEqz(v_(k-1)) in that order to x.
C9_AndCondFolds ==
    [][Stepped("AndCond") =>
        LET o == block'[Len(block')]
            x == At(mix_vars, o.x)
            cond == At(fp_vars, o.cond)
            inner == At(mix_vars, o.inner)
            za == ZeroAssertions(block, fp_vars, o.inner)
        IN  /\ fp_vars' = fp_vars
            /\ mix_vars' = Append(mix_vars,
                   [tot |-> ExtAdd(x.tot, ExtMul(ExtMul(cond, inner.tot), x.mul)),
                    mul |-> ExtMul(x.mul, inner.mul)])
            /\ (cond = ExtZERO => Newest(mix_vars').tot = x.tot)
            /\ (cond = ExtONE /\ za.chain =>
                    Newest(mix_vars') = FoldOnto(x, za.vals, mix))]_vars

\* An AndCond has just been stepped with cond one, an inner accumulator
\* that is True followed by nonzero zero-assertions, and an outer
\* accumulator whose mul is no longer one.
C9_Witness ==
    /\ pe_pc = "run"
    /\ Len(block) > 0
    /\ LastOp.op = "AndCond"
    /\ At(fp_vars, LastOp.cond) = ExtONE
    /\ At(mix_vars, LastOp.x).mul # ExtONE
    /\ mix[2] # 0
    /\ LET za == ZeroAssertions(block, fp_vars, LastOp.inner)
       IN  /\ za.chain
           /\ Len(za.vals) >= 1
           /\ \A i \in DOMAIN za.vals : za.vals[i] # ExtZERO
    /\ Newest(mix_vars).tot # At(mix_vars, LastOp.x).tot

NumFpOps(blk) == Cardinality({i \in DOMAIN blk : IsFpOp(blk[i])})

NumMixOps(blk) == Cardinality({i \in DOMAIN blk : IsMixOp(blk[i])})

\* The loop over the block has ended without a panic and step leaves with
\* self.ret = ret'.
Leaves ==
    /\ pe_pc = "run"
    /\ pe_pc' # "run"
    /\ block' = block

Fatal(pc) ==
    pc \in {"panic_capacity_underflow", "panic_fp_capacity", "panic_mix_capacity", "panic_index"}

\* C10 as stated: for every block whose operands refer to produced values
\* and every ret that is an index of a produced mix value, step returns
\* mix_vars[ret], and the check after the loop is not fatal when the values
\* produced are as many as the ops of each kind.
C10_ReturnsAtEveryMixIndex ==
    [][(/\ Leaves
        /\ ret' < Len(mix_vars)
        /\ Len(fp_vars) = NumFpOps(block)
        /\ Len(mix_vars) = NumMixOps(block))
       => (pe_pc' = "returned" /\ result' = At(mix_vars, ret'))]_vars

\* C10, amended: while the operands refer to produced values, the fp and
\* mix values produced are always as many as the ops of each kind; step
\* returns exactly when ret + 1 is the number of True/AndEqz/AndCond ops of
\* the block, that is when ret indexes the newest mix value, and it then
\* returns mix_vars[ret]; for every other ret it ends in a panic.
C10_ReturnsNewestMixOnly ==
    [][(pe_pc = "run" =>
            /\ Len(fp_vars) = NumFpOps(block)
            /\ Len(mix_vars) = NumMixOps(block))
       /\ (Leaves =>
            IF ret' + 1 = NumMixOps(block)
            THEN /\ pe_pc' = "returned"
                 /\ result' = At(mix_vars, ret')
                 /\ result' = Newest(mix_vars)
            ELSE Fatal(pe_pc'))]_vars

\* step has returned the second of two mix values, after fp ops, and it is
\* not the accumulator pushed by True.
C10_Witness ==
    /\ pe_pc = "returned"
    /\ ret = 1
    /\ Len(mix_vars) = 2
    /\ Len(fp_vars) >= 1
    /\ result = At(mix_vars, 1)
    /\ result # At(mix_vars, 0)

(***************************************************************************)
(* Claims on Program::load_elf (checked under SpecElf).                    *)
(***************************************************************************)
\* C11: whatever the input (a container that does not parse, a segment
\* whose vaddr + i or offset + i + j leaves u32, a segment whose offset
\* points past the end of the input), load_elf ends by returning an error
\* value to its caller, never by a panic.
C11_MalformedReturnsError == elf_res.status # "panic"

\* C12: every Program that load_elf returns has only image keys that are
\* multiples of 4 and strictly below max_mem.
C12_KeysAlignedBelowMaxMem ==
    elf_res.status = "ok" =>
        \A a \in DOMAIN elf_res.image : a % 4 = 0 /\ a < max_mem

\* The entries of the segment table of a parsed container.
SegCount(h) == IF h.has_segments THEN h.phnum ELSE 0

\* A header that one of the checks before the segment loop rejects.
RejectedHeader(h, mm) ==
    \/ h.class # "ELF32"
    \/ h.e_machine # "EM_RISCV"
    \/ h.e_type # "ET_EXEC"
    \/ h.e_entry % 4 # 0
    \/ h.e_entry >= mm
    \/ SegCount(h) > 256

HeaderErrors ==
    {"Not a 32-bit ELF", "Invalid machine type, must be RISC-V",
     "Invalid ELF type, must be executable", "Invalid entrypoint",
     "Too many program headers"}

\* C13: for a container that parses, load_elf returns an error and no
\* Program when the class is not 32-bit, the machine is not RISC-V, the type
\* is not executable, the entry is not a multiple of 4 or is >= max_mem, or
\* the segment table has more than 256 entries; no word has been loaded and
\* no MemoryImage exists then. A header with an aligned entry below max_mem
\* and a table of at most 256 entries is not rejected by these checks.
C13_HeaderChecks ==
    (elf.parsed /\ elf_pc # "start") =>
        IF RejectedHeader(elf, max_mem)
        THEN /\ elf_res.status = "err"
             /\ elf_res.msg \in HeaderErrors
             /\ image = EmptyImage
             /\ img_pc = "idle"
             /\ buf = <<>>
        ELSE /\ ~(elf_res.status = "err" /\ elf_res.msg \in HeaderErrors)
             /\ (elf.has_segments => elf_pc # "panic" \/ elf_res.msg # "Missing segment table")

\* load_elf has rejected an odd entry point of a 32-bit RISC-V executable.
C13_Witness ==
    /\ elf.parsed
    /\ elf.class = "ELF32"
    /\ elf.e_machine = "EM_RISCV"
    /\ elf.e_type = "ET_EXEC"
    /\ elf.e_entry % 2 = 1
    /\ elf.e_entry < max_mem
    /\ elf_res.status = "err"
    /\ elf_res.msg = "Invalid entrypoint"

(***************************************************************************)
(* Claims on MemoryImage::new and hash_pages (checked under SpecImage).    *)
(***************************************************************************)
\* A word of the program does not fit in the buffer.
WordOutside(prog) == \E addr \in DOMAIN prog : addr + WORD_SIZE > MEM_SIZE

\* C14: MemoryImage::new returns the capacity error exactly when some word
\* address of program.image has addr + WORD_SIZE > MEM_SIZE; it then
\* produces no MemoryImage (no buffer with loaded words, no info), and it
\* does not end in a panic.
C14_CapacityError ==
    img_pc \notin {"idle", "start"} =>
        /\ (WordOutside(program) <=> img_pc = "err_capacity")
        /\ (img_pc = "err_capacity" => info = NoInfo /\ buf = <<>>)

\* MemoryImage::new has returned the capacity error for a program whose
\* word starts inside the buffer and ends outside it.
C14_Witness ==
    /\ img_pc = "err_capacity"
    /\ \E addr \in DOMAIN program : addr < MEM_SIZE /\ addr + WORD_SIZE > MEM_SIZE

\* The page that holds the entry slot of page i.
EntryPage(i) == get_page_index(info, get_page_entry_addr(info, i))

\* C17: in every image hash_pages has run on, the entry slot of each page
\* i < num_pages lies entirely in one page, of index strictly greater than
\* i; hash_pages hashes the pages in ascending index, so each page is hashed
\* after every digest stored inside it was written (the digest stored for
\* it is the digest of its final content); and the integrity walk moves to
\* a strictly greater page index at each step until the root index.
C17_EntriesInLaterPages ==
    img_pc = "ready" =>
        /\ \A i \in 0..(info.num_pages - 1) :
              /\ EntryPage(i) > i
              /\ get_page_index(info, get_page_entry_addr(info, i) + DIGEST_BYTES - 1)
                    = EntryPage(i)
        /\ (~dirty => \A i \in 0..(info.num_pages - 1) :
                          StoredDigest(i) = RecomputedDigest(i))
        /\ \A i \in 0..(info.root_idx - 1) :
              LET walk == WalkedPages(i)
              IN  /\ \A k \in 1..(Len(walk) - 1) : walk[k] < walk[k + 1]
                  /\ EntryPage(walk[Len(walk)]) >= info.root_idx
        /\ (chk.op = "check" => chk.res.status # "diverge")

\* hash_pages has run on an image with a hashed page that itself holds the
\* digest of an earlier page, and a loaded word.
C17_Witness ==
    /\ img_pc = "ready"
    /\ ~dirty
    /\ DOMAIN program # {}
    /\ \E i \in 0..(info.num_pages - 1) : EntryPage(i) < info.num_pages
    /\ \E i \in 0..(info.root_idx - 1) : Len(WalkedPages(i)) >= 3

\* The four bytes at addr..addr+4 of b are plain bytes, the little-endian
\* bytes of word.
HoldsWord(b, addr, word) ==
    \A k \in 0..(WORD_SIZE - 1) :
        /\ b[(addr + k) \div DIGEST_BYTES][1] = "D"
        /\ ByteAt(b, addr + k) = (word \div (256 ^ k)) % 256

\* The half-blocks that are entry slots of the pages 0..num_pages.
EntryCells(inf) == {EntryCell(inf, i) : i \in 0..(inf.num_pages - 1)}

WordCells(addr) == {(addr + k) \div DIGEST_BYTES : k \in 0..(WORD_SIZE - 1)}

\* No later key of the image overlaps the word at addr.
NotOverwritten(prog, addr) == \A o \in DOMAIN prog : ~(addr < o /\ o < addr + WORD_SIZE)

NewStep == img_pc = "start" /\ img_pc' = "ready"

HashPagesStep == img_pc = "ready" /\ img_pc' = "ready" /\ last'[1] = "hash_pages"

Owner(a) == CHOOSE w \in Workers : a \in own[w]

\* The value worker w last set at element a, or the initial value.
LastSetBy(w, a) == IF wrote[w][a] = Unset THEN 0 ELSE wrote[w][a]

\* The buffer made of each worker's own sets alone, whatever the order in
\* which the workers' calls were interleaved.
MergedBuffer == [i \in 1..SyncLen |-> LastSetBy(Owner(i - 1), i - 1)]

\* C15: while the workers keep to disjoint sets of elements of the buffer,
\* the buffer is the merge of what each worker last set on its own elements
\* (so it does not depend on the interleaving), a get returns the value the
\* same worker last set at that element or the initial value, and every
\* call of a worker on one of its own elements can be taken at once,
\* whatever the other worker has done.
C15_DisjointWorkersDeterministic ==
    sync_pc # "out_of_bounds" =>
        /\ sbuf = MergedBuffer
        /\ (sync_pc = "run" /\ sync_last.op = "get")
              => sync_last.val = LastSetBy(sync_last.w, sync_last.a)
        /\ sync_pc = "run" =>
              \A w \in Workers : \A a \in own[w] :
                 /\ ENABLED SS_Get(w, "root", a)
                 /\ \A val \in SyncValues : ENABLED SS_Set(w, "root", a, val)

\* Both workers have set elements, a shifted view has been made, and a get
\* of an element of that view has returned a value that a set wrote.
C15_Witness ==
    /\ sync_pc = "run"
    /\ view.ptr > 0
    /\ \A w \in Workers : \E a \in own[w] : wrote[w][a] # Unset
    /\ sync_last.op = "get"
    /\ sync_last.val = 2
    /\ sync_last.a >= view.ptr

\* C16: after any chain of slice calls, every get and set that passes its
\* assertion addresses an element inside the original buffer.
C16_AccessesStayInBuffer == sync_pc # "out_of_bounds"

====
